---- MODULE Spec2Model ----
(***************************************************************************)
(* CarModel (mpc_view/view/scene/items/car.py): the receding-horizon       *)
(* executor of a tractor with a trailer.  One tick is CarModel.move():     *)
(* predict() hands the current pose, steering and geometry to the MPC      *)
(* solver, and on success one Euler step of the kinematic model is applied *)
(* to the graphics item.                                                   *)
(*                                                                         *)
(* Numbers.  The code computes in floating point; the model computes in    *)
(* exact integers with fixed units:                                        *)
(*   time               tenths of a second       (DT = 0.1 s  is 1)        *)
(*   geometry lengths   metres                   (as the class constants)  *)
(*   position x, y      millimetres                                        *)
(*   angles in radians  units of pi/3600 rad     (25 degrees is 500)       *)
(*   Qt rotations       hundredths of a degree   (25 degrees is 2500)      *)
(* so math.degrees multiplies by 5 and math.radians divides by 5.          *)
(***************************************************************************)
EXTENDS Integers, Sequences, FiniteSets, TLC

VARIABLES
    pos,                \* <<self.x(), self.y()>>
    rotation,           \* self.rotation(), tractor heading
    trailer_rotation,   \* self.trailer.rotation(), relative to the tractor
    front_left_wheel,   \* self.front_left_wheel.rotation()
    front_right_wheel,  \* self.front_right_wheel.rotation()
    body_width,         \* self.body.rect().width(), the wheel base
    trailer_width,      \* self.trailer.rect().width(), the trailer length
    ctrl_point,         \* self.ctrl_point.pos()
    trailer_offset,     \* the class attribute TRAILER_OFFSET as configured
    mpc,                \* identity of the solver instance self.mpc
    built,              \* number of solver instances built so far
    ticks,              \* number of move() calls so far
    reconfs,            \* number of set_wheel_base / set_trailer_len calls so far
    last,               \* what the last operation was and what it did
    applied             \* steering angle applied by the last successful tick

vars == <<pos, rotation, trailer_rotation, front_left_wheel, front_right_wheel,
          body_width, trailer_width, ctrl_point, trailer_offset, mpc, built,
          ticks, reconfs, last, applied>>

-----------------------------------------------------------------------------
(* Bounds of the model *)

MaxTicks == 3
MaxReconfs == 2
MaxBuilt == 2

(* Class constants of CarModel *)

DT == 1
SPEED == 5
WHEEL_BASE == 5
TRAILER_LEN == 5
STEERING_ANGLE == 0
TRAILER_OFFSET == 0
TRAILER_CTRL_POINT == <<0, 3>>

(* Inputs the environment may supply *)

DTs == {1, 2}                       \* dt of a move() call, tenths of a second
WheelBases == {-2, 3}               \* arguments of set_wheel_base, nonzero
TrailerLens == {-1, 4}              \* arguments of set_trailer_len, nonzero
TrailerOffsets == {0, 1}            \* configured values of TRAILER_OFFSET
ControlSeqs == {<<0, 200, 500>>, <<200, -500, 0>>}

None == <<>>                        \* Python's None
ValueError == <<"ValueError">>         \* the solver found no solution

-----------------------------------------------------------------------------
(* Arithmetic on 4-vectors (numpy arrays of length 4) *)

Add4(a, b) == <<a[1] + b[1], a[2] + b[2], a[3] + b[3], a[4] + b[4]>>

Scale4(a, k) == <<a[1] * k, a[2] * k, a[3] * k, a[4] * k>>

\* integer quotient rounded toward minus infinity, for any nonzero divisor
Div(a, b) == IF b > 0 THEN a \div b ELSE (-a) \div (-b)

(* math.degrees and math.radians in the units of this model *)

Degrees(r) == r * 5

Radians(d) == d \div 5

-----------------------------------------------------------------------------
(* mpc_back_box.MPCBlackBox.trailer_model: the kinematic model.  Its code   *)
(* is not part of car.py; it follows section 4.1 of the specification.      *)
(* Trigonometry is tabulated in steps of 5 degrees, scaled by 1000.         *)

SinTab == <<0, 87, 174, 259, 342, 423, 500, 574, 643, 707,
            766, 819, 866, 906, 940, 966, 985, 996, 1000>>

Sin1000(a) ==
    LET q == (a \div 100) % 72
    IN  IF q <= 18 THEN SinTab[q + 1]
        ELSE IF q <= 36 THEN SinTab[37 - q]
        ELSE IF q <= 54 THEN -SinTab[q - 35]
        ELSE -SinTab[73 - q]

Cos1000(a) == Sin1000(a + 1800)

Tan1000(a) == IF Cos1000(a) = 0 THEN 0 ELSE Div(Sin1000(a) * 1000, Cos1000(a))

\* derivative of <<x, y, heading, trailer heading>> per tenth of a second
trailer_model(state, speed, steering_angle, wheel_base, trailer_len, offset) ==
    LET rel == state[3] - state[4]
        dheading == Div(speed * Tan1000(steering_angle) * 1146, wheel_base * 10000)
    IN  << Div(speed * Cos1000(state[3]), 10),
           Div(speed * Sin1000(state[3]), 10),
           dheading,
           Div(speed * Sin1000(rel) * 1146, trailer_len * 10000)
             - Div(offset * dheading * Cos1000(rel), trailer_len * 1000) >>

(* mpc_casadi.MPCCasadi.optimize_controls: the solver.  Its code is not     *)
(* part of car.py.  It either raises ValueError or returns a horizon        *)
(* solution <<states, controls>>: the controls are its choice, the states   *)
(* the Euler rollout of the kinematic model from the pinned initial state   *)
(* (section 4.2 of the specification).                                      *)

optimize_controls(args, controls) ==
    LET s1 == args.state
        s2 == Add4(s1, Scale4(trailer_model(s1, args.speed, controls[2],
                   args.wheel_base, args.trailer_len, args.trailer_offset), args.dt))
        s3 == Add4(s2, Scale4(trailer_model(s2, args.speed, controls[3],
                   args.wheel_base, args.trailer_len, args.trailer_offset), args.dt))
    IN  << <<s1, s2, s3>>, controls >>

-----------------------------------------------------------------------------
(* CarModel.predict and CarModel.move *)

\* the state vector built from the graphics item
ReadState(p, rot, trailer_rot) ==
    <<p[1], p[2], Radians(rot), Radians(rot + trailer_rot)>>

\* the control-point argument of optimize_controls
CtrlPointOffset(trailer_len, ctrl_point_pos) ==
    <<trailer_len - ctrl_point_pos[1], ctrl_point_pos[2]>>

\* the arguments predict() hands to self.mpc.optimize_controls
PredictArgs ==
    [ mpc            |-> mpc,
      dt             |-> DT,
      state          |-> ReadState(pos, rotation, trailer_rotation),
      steering_angle |-> Radians(front_left_wheel),
      speed          |-> SPEED,
      wheel_base     |-> body_width,
      trailer_len    |-> trailer_width,
      trailer_offset |-> trailer_offset,
      ctrl_point     |-> CtrlPointOffset(trailer_width, ctrl_point) ]

SteeringAngle_Index0(solution) == solution[2][1]

\* steering_angle = float(solution[1][1]); Python indexes from 0
SteeringAngle(solution) == solution[2][2]

\* the arguments move() hands to trailer_model, and the dt it multiplies by
StepParams(dt, steering_angle) ==
    [ dt             |-> dt,
      steering_angle |-> steering_angle,
      speed          |-> SPEED,
      wheel_base     |-> body_width,
      trailer_len    |-> trailer_width,
      trailer_offset |-> 0 ]

EulerStep_Twice(state, p) ==
    LET once == Add4(state, Scale4(trailer_model(state, p.speed, p.steering_angle,
                        p.wheel_base, p.trailer_len, p.trailer_offset), p.dt))
    IN  Add4(once, Scale4(trailer_model(once, p.speed, p.steering_angle,
                        p.wheel_base, p.trailer_len, p.trailer_offset), p.dt))

\* state += trailer_model(state, ...)[:4] * dt
EulerStep(state, p) ==
    Add4(state, Scale4(trailer_model(state, p.speed, p.steering_angle,
                           p.wheel_base, p.trailer_len, p.trailer_offset), p.dt))

Applied_LeftWheelOnly(state, steering_angle) ==
    << <<state[1], state[2]>>,
       Degrees(state[3]),
       Degrees(state[4] - state[3]),
       Degrees(steering_angle),
       0 >>

\* the item after the setters at the end of move():
\* <<pos, rotation, trailer rotation, front left wheel, front right wheel>>
Applied(state, steering_angle) ==
    << <<state[1], state[2]>>,
       Degrees(state[3]),
       Degrees(state[4] - state[3]),
       Degrees(steering_angle),
       Degrees(steering_angle) >>

Retained_SteeringReset(item) == <<item[1], item[2], item[3], 0, 0>>

\* the item after the except branch of move(): nothing was set
Retained(item) == item

Returned_AppliedOnly(solution) == << <<solution[1][2]>>, <<solution[2][2]>> >>

\* return solution
Returned(solution) == solution

Item == <<pos, rotation, trailer_rotation, front_left_wheel, front_right_wheel>>

Geometry == <<body_width, trailer_width, ctrl_point, trailer_offset>>

\* number of failed ticks that directly precede this operation
FailedRun == IF last.op = "move" THEN last.failed ELSE 0

\* the item takes the given values
SetItem(item) ==
    /\ pos' = item[1]
    /\ rotation' = item[2]
    /\ trailer_rotation' = item[3]
    /\ front_left_wheel' = item[4]
    /\ front_right_wheel' = item[5]

\* move(dt, line, circles_obstacle); out is what the solver does in this tick
Move(dt, out) ==
    /\ ticks < MaxTicks
    /\ LET args == PredictArgs
           state == ReadState(pos, rotation, trailer_rotation)
       IN  IF out = ValueError
           THEN /\ SetItem(Retained(Item))
                /\ last' = [ op |-> "move", prev |-> last.op, dt |-> dt,
                             args |-> args, solution |-> None, ret |-> None,
                             pre |-> state, step |-> None,
                             failed |-> FailedRun + 1 ]
                /\ UNCHANGED applied
           ELSE LET solution == optimize_controls(args, out)
                    steering_angle == SteeringAngle(solution)
                    step == StepParams(dt, steering_angle)
                IN  /\ SetItem(Applied(EulerStep(state, step), steering_angle))
                    /\ last' = [ op |-> "move", prev |-> last.op, dt |-> dt,
                                 args |-> args, solution |-> solution,
                                 ret |-> Returned(solution),
                                 pre |-> state, step |-> step,
                                 failed |-> 0 ]
                    /\ applied' = steering_angle
    /\ ticks' = ticks + 1
    /\ UNCHANGED <<Geometry, mpc, built, reconfs>>

SetWheelBase_Rebuild(wheel_base) ==
    /\ reconfs < MaxReconfs
    /\ reconfs' = reconfs + 1
    /\ body_width' = wheel_base
    /\ built' = built + 1
    /\ mpc' = built + 1
    /\ last' = [ op |-> "set_wheel_base", mpc |-> mpc ]
    /\ UNCHANGED <<Item, trailer_width, ctrl_point, trailer_offset,
                   ticks, applied>>

\* set_wheel_base(wheel_base): resizes the body, moves the front wheels
SetWheelBase(wheel_base) ==
    /\ reconfs < MaxReconfs
    /\ reconfs' = reconfs + 1
    /\ body_width' = wheel_base
    /\ last' = [ op |-> "set_wheel_base", mpc |-> mpc ]
    /\ UNCHANGED <<Item, trailer_width, ctrl_point, trailer_offset,
                   mpc, built, ticks, applied>>

\* set_trailer_len(trailer_len): resizes the trailer, moves its wheels
SetTrailerLen(trailer_len) ==
    /\ reconfs < MaxReconfs
    /\ reconfs' = reconfs + 1
    /\ trailer_width' = trailer_len
    /\ last' = [ op |-> "set_trailer_len", mpc |-> mpc ]
    /\ UNCHANGED <<Item, body_width, ctrl_point, trailer_offset,
                   mpc, built, ticks, applied>>

\* rebuild_mpc(...): self.mpc = mpc_casadi.MPCCasadi(...)
RebuildMpc ==
    /\ built < MaxBuilt
    /\ built' = built + 1
    /\ mpc' = built + 1
    /\ last' = [ op |-> "rebuild_mpc", mpc |-> mpc ]
    /\ UNCHANGED <<Item, Geometry, ticks, reconfs, applied>>

\* CarModel.__init__ with the hitch offset of the class
Construct(offset) ==
    /\ pos = <<0, 0>>
    /\ rotation = 0
    /\ trailer_rotation = 0
    /\ front_left_wheel = 0
    /\ front_right_wheel = 0
    /\ body_width = WHEEL_BASE
    /\ trailer_width = TRAILER_LEN
    /\ ctrl_point = <<TRAILER_CTRL_POINT[1] - TRAILER_LEN, TRAILER_CTRL_POINT[2]>>
    /\ trailer_offset = offset
    /\ mpc = 1
    /\ built = 1
    /\ ticks = 0
    /\ reconfs = 0
    /\ last = [ op |-> "__init__", mpc |-> 1 ]
    /\ applied = STEERING_ANGLE

Init == Construct(TRAILER_OFFSET)

InitOffsets == \E offset \in TrailerOffsets : Construct(offset)

Next ==
    \/ \E dt \in DTs : \E out \in ControlSeqs \cup {ValueError} : Move(dt, out)
    \/ \E wheel_base \in WheelBases : SetWheelBase(wheel_base)
    \/ \E trailer_len \in TrailerLens : SetTrailerLen(trailer_len)
    \/ RebuildMpc

Spec == Init /\ [][Next]_vars

SpecOffsets == InitOffsets /\ [][Next]_vars

-----------------------------------------------------------------------------
(* Properties *)

Reconfigurations == {"set_wheel_base", "set_trailer_len"}

Ticked == last.op = "move"

Succeeded == last.op = "move" /\ last.solution # None

Failed == last.op = "move" /\ last.solution = None

\* C1: a tick whose solve raises ValueError returns None and leaves position,
\* tractor heading, trailer rotation and both front-wheel rotations as they
\* were before the call, and the applied steering is retained.
C1_FailedTickRetainsState ==
    [][(ticks' = ticks + 1 /\ last'.solution = None)
        => (last'.ret = None /\ Item' = Item /\ applied' = applied)]_vars

\* two consecutive failed ticks after the vehicle has moved and steered
C1_Witness ==
    /\ Failed
    /\ last.failed >= 2
    /\ front_left_wheel # 0
    /\ rotation # 0

\* C2 as claimed: the steering angle applied by a successful tick is element 0
\* of the control list of the returned solution.
C2_AppliesControl0 ==
    Succeeded => Radians(front_left_wheel) = last.ret[2][1]

\* C2 as amended: the steering angle applied by a successful tick is element 1
\* (the second element) of the control list of the returned solution.
C2_AppliesControl1 ==
    Succeeded => /\ last.step.steering_angle = last.ret[2][2]
                 /\ Radians(front_left_wheel) = last.ret[2][2]
                 /\ Radians(front_right_wheel) = last.ret[2][2]

\* a successful tick whose three predicted controls are pairwise different
C2_Witness ==
    /\ Succeeded
    /\ last.ret[2][1] # last.ret[2][2]
    /\ last.ret[2][2] # last.ret[2][3]
    /\ last.ret[2][1] # last.ret[2][3]

\* C3: after a successful tick the state read back from the item is the state
\* before the tick plus dt times the derivative of the kinematic model at the
\* state before the tick, with the steering angle chosen in this tick, the
\* cruise speed and the vehicle's geometry: one Euler step.
C3_OneEulerStep ==
    Succeeded =>
        LET s == last.pre
            d == trailer_model(s, SPEED, applied, body_width, trailer_width,
                               trailer_offset)
        IN  ReadState(pos, rotation, trailer_rotation) =
                << s[1] + last.dt * d[1], s[2] + last.dt * d[2],
                   s[3] + last.dt * d[3], s[4] + last.dt * d[4] >>

\* a successful tick with dt other than DT from a state with turned tractor
\* and articulated trailer, steering away from straight ahead
C3_Witness ==
    /\ Succeeded
    /\ last.dt # DT
    /\ last.pre[3] # 0
    /\ last.pre[3] # last.pre[4]
    /\ applied # 0

C5_GeometryPositive ==
    /\ body_width > 0
    /\ trailer_width > 0
    /\ Ticked => (last.args.wheel_base > 0 /\ last.args.trailer_len > 0)

\* C6 as claimed: the dt handed to the solver is the dt of the move() call.
C6_SolverGetsCallerDt ==
    Ticked => last.args.dt = last.dt

\* C7: move() returns a result other than None exactly when the solve
\* succeeded, and the result is the solver's solution, all predicted states
\* and all predicted controls.
C7_ReturnsWholeSolution ==
    Ticked => /\ (last.ret # None) <=> (last.solution # None)
              /\ last.ret = last.solution

\* a successful tick that returned three predicted states and three controls
C7_Witness ==
    /\ Succeeded
    /\ Len(last.ret[1]) = 3
    /\ Len(last.ret[2]) = 3
    /\ last.ret[1][2] # last.ret[1][3]

\* C8: the steering angle handed to the solver at the start of a tick is the
\* one applied by the most recent successful tick (the initial one if there
\* was none), and both front wheels always carry the same rotation.
C8_SteeringContinuity ==
    /\ [](front_left_wheel = front_right_wheel)
    /\ [][ticks' = ticks + 1 => last'.args.steering_angle = applied]_vars

\* the third tick, directly after a reconfiguration, is handed a steering
\* angle other than the initial one
C8_Witness ==
    /\ Ticked
    /\ last.prev \in Reconfigurations
    /\ last.args.steering_angle # STEERING_ANGLE
    /\ ticks = 3

\* C9 as claimed: the control-point offset handed to the solver is
\* TRAILER_CTRL_POINT.
C9_CtrlPointRoundTrip ==
    Ticked => last.args.ctrl_point = TRAILER_CTRL_POINT

\* C10 as claimed: in a successful tick the speed, wheel base, trailer length
\* and hitch offset given to trailer_model by move() are the ones given to
\* the solver by predict().
C10_StepParamsMatchSolver ==
    Succeeded => /\ last.step.speed = last.args.speed
                 /\ last.step.wheel_base = last.args.wheel_base
                 /\ last.step.trailer_len = last.args.trailer_len
                 /\ last.step.trailer_offset = last.args.trailer_offset

====
